---- MODULE Spec2Model ----
(***************************************************************************)
(* A model of the robot map widget: AppComponent (app.component.ts, the    *)
(* first class of the file, lines 13-724), RotatableMarker                 *)
(* (rotatable-marker.ts) and MapService (map.service.ts).                  *)
(*                                                                         *)
(* Numbers.  A JavaScript number is modelled as an extended rational, a    *)
(* record [n, d]: d > 0 is the rational n/d in lowest terms, d = 0 is a    *)
(* non-finite value (n = 1: Infinity, n = -1: -Infinity, n = 0: NaN).      *)
(* `undefined` and `null` are two further records with d < 0.  Arithmetic  *)
(* is exact: the rounding of IEEE doubles is not modelled.                 *)
(***************************************************************************)
EXTENDS Integers, Sequences, FiniteSets, TLC

VARIABLES
    \* AppComponent fields
    mapId, resolution, mapOrigin, mapName,
    mapImageUrl, map, mapImageLayer, originMarker,
    \* the Leaflet map: the layers attached to it and the handlers the
    \* component registered on it with map.on()
    leaflet,
    mapWidthPixels, mapHeightPixels, mapWidthMeters, mapHeightMeters,
    robotMarker,
    previousRobotX, previousRobotY, previousRobotAngle,
    hasError, errorMessage,
    \* the world outside the component; `calls` counts the calls made and
    \* remembers which load sequence the last successful responses followed
    stateRequests, imageRequests, imageLoads, blobUrls, putRequests,
    alerts, calls,
    \* the last operation that ran, with its arguments and its result
    last

frameVars == <<mapId, resolution, mapOrigin, mapName>>
viewVars == <<mapImageUrl, map, mapImageLayer, originMarker, leaflet>>
dimVars == <<mapWidthPixels, mapHeightPixels, mapWidthMeters, mapHeightMeters>>
trackVars == <<previousRobotX, previousRobotY, previousRobotAngle>>
errVars == <<hasError, errorMessage>>
netVars == <<stateRequests, imageRequests, imageLoads, blobUrls, putRequests>>

vars == <<frameVars, viewVars, dimVars, robotMarker, trackVars, errVars,
          netVars, alerts, calls, last>>

----------------------------------------------------------------------------
(* JavaScript numbers                                                      *)

Abs(i) == IF i < 0 THEN -i ELSE i

RECURSIVE Gcd(_, _)
Gcd(a, b) == IF b = 0 THEN a ELSE Gcd(b, a % b)

\* the rational n/d (d # 0) in lowest terms with a positive denominator
R(n, d) ==
    LET g == Gcd(Abs(n), Abs(d))
        s == IF d < 0 THEN -1 ELSE 1
    IN  [n |-> (s * n) \div g, d |-> (s * d) \div g]

Zero == [n |-> 0, d |-> 1]
NaN == [n |-> 0, d |-> 0]
Infinity == [n |-> 1, d |-> 0]
NegInfinity == [n |-> -1, d |-> 0]
Undefined == [n |-> 0, d |-> -1]
Null == [n |-> 0, d |-> -2]

IsFinite(v) == v.d > 0

\* ToNumber: undefined -> NaN, null -> 0
ToNumber(v) == IF v = Undefined THEN NaN ELSE IF v = Null THEN Zero ELSE v

\* the sign of a number that is not NaN
Sign(v) == IF v.n > 0 THEN 1 ELSE IF v.n < 0 THEN -1 ELSE 0

\* ToBoolean of a number-or-undefined-or-null: 0, NaN, undefined, null are falsy
Truthy(v) == v.d >= 0 /\ v.n # 0

\* `v || 0`
OrZero(v) == IF Truthy(v) THEN v ELSE Zero

JsNeg(v0) ==
    LET v == ToNumber(v0) IN [n |-> -v.n, d |-> v.d]

JsAdd(a0, b0) ==
    LET a == ToNumber(a0)
        b == ToNumber(b0)
    IN  IF a = NaN \/ b = NaN THEN NaN
        ELSE IF ~IsFinite(a) /\ ~IsFinite(b) THEN (IF a = b THEN a ELSE NaN)
        ELSE IF ~IsFinite(a) THEN a
        ELSE IF ~IsFinite(b) THEN b
        ELSE R(a.n * b.d + b.n * a.d, a.d * b.d)

JsSub(a, b) == JsAdd(a, JsNeg(b))

JsMul(a0, b0) ==
    LET a == ToNumber(a0)
        b == ToNumber(b0)
    IN  IF a = NaN \/ b = NaN THEN NaN
        ELSE IF ~IsFinite(a) \/ ~IsFinite(b)
             THEN (IF Sign(a) * Sign(b) = 0 THEN NaN
                   ELSE [n |-> Sign(a) * Sign(b), d |-> 0])
        ELSE R(a.n * b.n, a.d * b.d)

JsDiv(a0, b0) ==
    LET a == ToNumber(a0)
        b == ToNumber(b0)
    IN  IF a = NaN \/ b = NaN THEN NaN
        ELSE IF ~IsFinite(a)
             THEN (IF ~IsFinite(b) THEN NaN
                   ELSE [n |-> Sign(a) * (IF Sign(b) < 0 THEN -1 ELSE 1), d |-> 0])
        ELSE IF ~IsFinite(b) THEN Zero
        ELSE IF b.n = 0 THEN [n |-> Sign(a), d |-> 0]
        ELSE R(a.n * b.d, a.d * b.n)

\* a > b (false whenever one side is NaN)
JsGt(a0, b0) ==
    LET a == ToNumber(a0)
        b == ToNumber(b0)
    IN  IF a = NaN \/ b = NaN THEN FALSE
        ELSE IF ~IsFinite(a) \/ ~IsFinite(b)
             THEN (IF IsFinite(a) THEN b = NegInfinity
                   ELSE IF IsFinite(b) THEN a = Infinity
                   ELSE a = Infinity /\ b = NegInfinity)
        ELSE a.n * b.d > b.n * a.d

JsLt(a, b) == JsGt(b, a)

JsGe(a, b) == JsGt(a, b) \/ (ToNumber(a) # NaN /\ ToNumber(a) = ToNumber(b))

\* Math.abs
JsAbs(v0) ==
    LET v == ToNumber(v0) IN [n |-> Abs(v.n), d |-> v.d]

\* integer quotient rounded towards zero (d > 0)
Trunc(n, d) == IF n >= 0 THEN n \div d ELSE -((-n) \div d)

\* a % m: the remainder has the sign of the dividend
JsMod(a0, m0) ==
    LET a == ToNumber(a0)
        m == ToNumber(m0)
    IN  IF a = NaN \/ m = NaN \/ ~IsFinite(a) \/ m = Zero THEN NaN
        ELSE IF ~IsFinite(m) THEN a
        ELSE LET q == Trunc(a.n * m.d, a.d * Abs(m.n))
             IN  JsSub(a, JsMul(R(q, 1), JsAbs(m)))

----------------------------------------------------------------------------
(* Values of the fields                                                    *)

\* this.mapOrigin = null, and a Pose25D {x, y} (theta and z are not read by
\* the code of the claims)
NullOrigin == [x |-> Null, y |-> Null]
Origin(x, y) == [x |-> x, y |-> y]

\* `this.mapOrigin?.x`, `this.mapOrigin?.y`
OriginX == IF mapOrigin = NullOrigin THEN Undefined ELSE mapOrigin.x
OriginY == IF mapOrigin = NullOrigin THEN Undefined ELSE mapOrigin.y

\* this.robotMarker = null
NoMarker ==
    [exists |-> FALSE, lat |-> Null, lng |-> Null, angleDegrees |-> Zero,
     isRotating |-> FALSE, dragEnabled |-> FALSE, dragging |-> FALSE,
     setups |-> 0, timers |-> 0, startAngle |-> Zero, gestures |-> 0]

\* no blob URL (this.mapImageUrl = null, this.mapImageLayer = null)
NoUrl == [id |-> 0, map |-> ""]

\* a Leaflet map with no layer and no handler of the component
NoLayers ==
    [overlays |-> 0, markers |-> 0, crosshairs |-> 0,
     zoom |-> 0, resize |-> 0, zoomend |-> 0]

\* no PUT was answered with success yet
NoPayload == [x |-> Null, y |-> Null, theta |-> Null]

NoLast ==
    [op |-> "none", x |-> Null, y |-> Null, a |-> Null, out |-> Null,
     moved |-> FALSE, rotated |-> FALSE, theta |-> Null,
     status |-> 0, details |-> "", log |-> "", removed |-> {}]

Did(op) == [NoLast EXCEPT !.op = op]

\* the state after `new AppComponent(mapService, cdr)`
Init ==
    /\ mapId = ""
    /\ resolution = Zero
    /\ mapOrigin = NullOrigin
    /\ mapName = ""
    /\ mapImageUrl = NoUrl
    /\ map = FALSE
    /\ mapImageLayer = NoUrl
    /\ originMarker = NullOrigin
    /\ leaflet = NoLayers
    /\ mapWidthPixels = Zero
    /\ mapHeightPixels = Zero
    /\ mapWidthMeters = Zero
    /\ mapHeightMeters = Zero
    /\ robotMarker = NoMarker
    /\ previousRobotX = Null
    /\ previousRobotY = Null
    /\ previousRobotAngle = Null
    /\ hasError = FALSE
    /\ errorMessage = ""
    /\ stateRequests = 0
    /\ imageRequests = <<>>
    /\ imageLoads = <<>>
    /\ blobUrls = [created |-> 0, revoked |-> {}]
    /\ putRequests = [inFlight |-> 0, issued |-> 0, payloads |-> <<>>,
                      accepted |-> NoPayload]
    /\ alerts = [count |-> 0, text |-> ""]
    /\ calls = [ngOnInit |-> 0, commit |-> 0, commitWithMarker |-> 0, events |-> 0,
                ngOnDestroy |-> 0, answered |-> 0, loaded |-> 0]
    /\ last = NoLast

----------------------------------------------------------------------------
(* Coordinate conversion (app.component.ts 179-201)                        *)

metersToPixelsX(meters) ==
    JsDiv(JsSub(meters, OrZero(OriginX)), resolution)

\* metersToPixelsY with the constant pixel offset of the earlier revisions
metersToPixelsY_offset(meters) ==
    JsAdd(JsDiv(JsSub(meters, OrZero(OriginY)), resolution), R(-50, 1))

metersToPixelsY(meters) ==
    JsDiv(JsSub(meters, OrZero(OriginY)), resolution)

pixelsToMetersX(pixels) ==
    JsAdd(OrZero(OriginX), JsMul(pixels, resolution))

\* pixelsToMetersY with the Y axis flipped against the image height
pixelsToMetersY_flip(pixels) ==
    JsAdd(OrZero(OriginY), JsMul(JsSub(mapHeightPixels, pixels), resolution))

pixelsToMetersY(pixels) ==
    LET metersFromOrigin == JsMul(pixels, resolution)
    IN  JsAdd(OrZero(OriginY), metersFromOrigin)

\* the coordinates handed to the conversions
CoordInputs == {R(-352, 5), R(-64, 1), Zero, R(1, 1), R(-7, 2), R(5, 4)}

Convert(op, v, out) ==
    /\ last' = [Did(op) EXCEPT !.x = v, !.out = out]
    /\ UNCHANGED <<frameVars, viewVars, dimVars, robotMarker, trackVars,
                   errVars, netVars, alerts, calls>>

MetersToPixelsX == \E v \in CoordInputs : Convert("metersToPixelsX", v, metersToPixelsX(v))
MetersToPixelsY == \E v \in CoordInputs : Convert("metersToPixelsY", v, metersToPixelsY(v))
PixelsToMetersX == \E v \in CoordInputs : Convert("pixelsToMetersX", v, pixelsToMetersX(v))
PixelsToMetersY == \E v \in CoordInputs : Convert("pixelsToMetersY", v, pixelsToMetersY(v))

----------------------------------------------------------------------------
(* Loading the map (app.component.ts 40-131, 138-172, 289-478)             *)

\* bound on the number of ngOnInit() runs (the lifecycle hook, retries and
\* post-commit reloads together)
MaxLoads == 2

\* bound on the number of initializeLocalization() calls
MaxCommits == 1

\* AMR state responses: `localization` missing, `localization.map` missing,
\* or a map record {data, resolution, origin, name}
StateResponse(loc, hasMap, data, res, org) ==
    [localization |-> loc, hasMap |-> hasMap, data |-> data,
     resolution |-> res, origin |-> org, name |-> data]

NoLocalization == StateResponse(FALSE, FALSE, "", Undefined, NullOrigin)
NoMap == StateResponse(TRUE, FALSE, "", Undefined, NullOrigin)
MapInfo(data, res, org) == StateResponse(TRUE, TRUE, data, res, org)

ApiOrigin == Origin(R(-352, 5), R(-64, 1))
ApiResolution == R(1, 20)

\* the natural size of a map image, in pixels
ImageSize(id) ==
    IF id = "mapA" THEN [w |-> R(8, 1), h |-> R(4, 1)]
    ELSE [w |-> R(6, 1), h |-> R(6, 1)]

\* MapService.apiUrl, the {base} of every request
apiUrl == "http://100.79.47.58"

\* MapService.getMapData(): one GET {base}/node-api/edge/state in flight
getMapData == stateRequests + 1

\* ngOnInit() subscribing to getMapData() twice
ngOnInit_twice ==
    /\ stateRequests' = getMapData + 1
    /\ calls' = [calls EXCEPT !.ngOnInit = @ + 1]

\* the body of ngOnInit(): subscribe to getMapData()
ngOnInit ==
    /\ stateRequests' = getMapData
    /\ calls' = [calls EXCEPT !.ngOnInit = @ + 1]

\* MapService.getMapImage(id): one more GET .../maps/{id} in flight
getMapImage(id) == Append(imageRequests, id)

\* what loadMapImage() writes with console.error before it returns early
loadMapImageLog(id, res) ==
    IF id = "" THEN "No map ID available"
    ELSE IF ~Truthy(res) THEN "No map resolution available"
    ELSE ""

\* loadMapImage() without the check of the resolution
loadMapImage_noResolutionCheck(id, res) ==
    IF id = "" THEN imageRequests
    ELSE getMapImage(id)

\* loadMapImage(), run with the frame fields just assigned
loadMapImage(id, res) ==
    IF id = "" THEN imageRequests
    ELSE IF ~Truthy(res) THEN imageRequests
    ELSE getMapImage(id)

\* Angular runs ngOnInit once after construction
NgOnInit ==
    /\ calls.ngOnInit = 0
    /\ ngOnInit
    /\ last' = Did("ngOnInit")
    /\ UNCHANGED <<frameVars, viewVars, dimVars, robotMarker, trackVars,
                   errVars, imageRequests, imageLoads, blobUrls, putRequests,
                   alerts>>

\* getMapData().subscribe next: with `localization` or `localization.map`
\* missing the frame fields are cleared
StateNext_clearsFrame(r) ==
    /\ stateRequests > 0
    /\ stateRequests' = stateRequests - 1
    /\ IF ~r.localization \/ ~r.hasMap
       THEN /\ hasError' = TRUE
            /\ errorMessage' = "No map data available in localization"
            /\ mapId' = ""
            /\ resolution' = Zero
            /\ mapOrigin' = NullOrigin
            /\ mapName' = ""
            /\ imageRequests' = imageRequests
            /\ last' = Did("stateNext")
       ELSE /\ mapId' = r.data
            /\ resolution' = r.resolution
            /\ mapOrigin' = r.origin
            /\ mapName' = r.name
            /\ imageRequests' = loadMapImage(r.data, r.resolution)
            /\ last' = [Did("stateNext") EXCEPT
                            !.log = loadMapImageLog(r.data, r.resolution)]
            /\ UNCHANGED errVars
    /\ calls' = IF r.localization /\ r.hasMap
                THEN [calls EXCEPT !.answered = calls.ngOnInit]
                ELSE calls
    /\ UNCHANGED <<viewVars, dimVars, robotMarker, trackVars, imageLoads,
                   blobUrls, putRequests, alerts>>

\* getMapData().subscribe next: (app.component.ts 43-90)
StateNext(r) ==
    /\ stateRequests > 0
    /\ stateRequests' = stateRequests - 1
    /\ last' = [Did("stateNext") EXCEPT
                    !.log = IF r.localization /\ r.hasMap
                            THEN loadMapImageLog(r.data, r.resolution)
                            ELSE ""]
    /\ IF ~r.localization
       THEN /\ hasError' = TRUE
            /\ errorMessage' = "No localization data available from AMR"
            /\ UNCHANGED <<frameVars, imageRequests>>
       ELSE IF ~r.hasMap
       THEN /\ hasError' = TRUE
            /\ errorMessage' = "No map data available in localization"
            /\ UNCHANGED <<frameVars, imageRequests>>
       ELSE /\ mapId' = r.data
            /\ resolution' = r.resolution
            /\ mapOrigin' = r.origin
            /\ mapName' = r.name
            /\ imageRequests' = loadMapImage(r.data, r.resolution)
            /\ UNCHANGED errVars
    /\ calls' = IF r.localization /\ r.hasMap
                THEN [calls EXCEPT !.answered = calls.ngOnInit]
                ELSE calls
    /\ UNCHANGED <<viewVars, dimVars, robotMarker, trackVars, imageLoads,
                   blobUrls, putRequests, alerts>>

\* getMapData().subscribe error: (app.component.ts 91-95)
StateError ==
    /\ stateRequests > 0
    /\ stateRequests' = stateRequests - 1
    /\ hasError' = TRUE
    /\ errorMessage' = "Failed to fetch AMR State from server. Please check if the AMR service is running at http://192.168.1.81"
    /\ last' = Did("stateError")
    /\ UNCHANGED <<frameVars, viewVars, dimVars, robotMarker, trackVars,
                   imageRequests, imageLoads, blobUrls, putRequests, alerts,
                   calls>>

\* s without its i-th element
Remove(s, i) == SubSeq(s, 1, i - 1) \o SubSeq(s, i + 1, Len(s))

\* getMapImage().subscribe next: (app.component.ts 111-124) with initMap()
\* (138-172): the response becomes a blob URL; initMap() creates the Leaflet
\* map when the resolution is truthy and starts displayMapImage(), and
\* loadMapImage starts displayMapImage() once more when the map exists
ImageNext(i) ==
    LET url == [id |-> blobUrls.created + 1, map |-> imageRequests[i]]
        created == (~map) /\ Truthy(resolution)
        displays == IF map THEN <<url>>
                    ELSE IF created THEN <<url, url>>
                    ELSE <<>>
    IN  /\ imageRequests' = Remove(imageRequests, i)
        /\ blobUrls' = [blobUrls EXCEPT !.created = @ + 1]
        /\ mapImageUrl' = url
        /\ map' = (map \/ created)
        /\ imageLoads' = imageLoads \o displays
        /\ calls' = [calls EXCEPT !.loaded = calls.answered]
        /\ last' = Did("imageNext")
        /\ UNCHANGED <<frameVars, mapImageLayer, originMarker, leaflet, dimVars,
                       robotMarker, trackVars, errVars, stateRequests,
                       putRequests, alerts>>

\* getMapImage().subscribe error: (app.component.ts 125-129)
ImageError(i) ==
    /\ imageRequests' = Remove(imageRequests, i)
    /\ hasError' = TRUE
    /\ errorMessage' = "Failed to load map image from server. Map ID: " \o mapId
    /\ last' = Did("imageError")
    /\ UNCHANGED <<frameVars, viewVars, dimVars, robotMarker, trackVars,
                   stateRequests, imageLoads, blobUrls, putRequests, alerts,
                   calls>>

\* new RotatableMarker([lat, lng]) added to the map: the 'add' event runs
\* setupInteractions() once (rotatable-marker.ts 25-44)
NewMarker(lat, lng) ==
    [exists |-> TRUE, lat |-> lat, lng |-> lng, angleDegrees |-> Zero,
     isRotating |-> FALSE, dragEnabled |-> TRUE, dragging |-> FALSE,
     setups |-> 1, timers |-> 0, startAngle |-> Zero, gestures |-> 0]

\* layer.remove() of the layer a field refers to, when the field is set,
\* without effect
removeLayer_keeps(n, attached) == n

\* `if (this.layer) this.layer.remove()`: n layers of the kind are attached,
\* the one the field refers to is taken off
removeLayer(n, attached) == IF attached THEN n - 1 ELSE n

\* img.onload of displayMapImage() (app.component.ts 292-411), with
\* addRobotMarker() (415-478) and addOriginCrosshair() (230-287).  A NaN
\* bound makes `new LatLngBounds` throw, which ends the handler after the
\* dimensions were written.
ImageOnload(i) ==
    LET u == imageLoads[i]
        wPx == ImageSize(u.map).w
        hPx == ImageSize(u.map).h
        wM == JsMul(wPx, resolution)
        hM == JsMul(hPx, resolution)
        originXMeters == OrZero(OriginX)
        originYMeters == OrZero(OriginY)
        centerXMeters == JsAdd(originXMeters, JsDiv(wM, R(2, 1)))
        centerYMeters == JsAdd(originYMeters, JsDiv(hM, R(2, 1)))
        throws == wM = NaN \/ hM = NaN
    IN  /\ u.id \notin blobUrls.revoked
        /\ imageLoads' = Remove(imageLoads, i)
        /\ mapWidthPixels' = wPx
        /\ mapHeightPixels' = hPx
        /\ mapWidthMeters' = wM
        /\ mapHeightMeters' = hM
        /\ last' = Did("imageOnload")
        /\ IF throws
           THEN UNCHANGED <<mapImageLayer, originMarker, leaflet, robotMarker,
                            trackVars>>
           ELSE /\ mapImageLayer' = mapImageUrl
                /\ leaflet' =
                      [overlays |-> removeLayer(leaflet.overlays, mapImageLayer # NoUrl) + 1,
                       markers |-> removeLayer(leaflet.markers, robotMarker.exists) + 1,
                       crosshairs |->
                           IF mapOrigin = NullOrigin THEN leaflet.crosshairs
                           ELSE removeLayer(leaflet.crosshairs,
                                            originMarker # NullOrigin) + 1,
                       zoom |-> leaflet.zoom + 1,
                       resize |-> leaflet.resize + 1,
                       zoomend |-> leaflet.zoomend + 1]
                /\ robotMarker' = NewMarker(centerYMeters, centerXMeters)
                /\ previousRobotX' = centerXMeters
                /\ previousRobotY' = centerYMeters
                /\ previousRobotAngle' = Zero
                /\ originMarker' = IF mapOrigin = NullOrigin THEN originMarker
                                   ELSE mapOrigin
        /\ UNCHANGED <<frameVars, mapImageUrl, map, errVars, stateRequests,
                       imageRequests, blobUrls, putRequests, alerts, calls>>

----------------------------------------------------------------------------
(* RotatableMarker (rotatable-marker.ts)                                   *)

\* bound on the setTimeout(setupInteractions, 10) callbacks pending at once
MaxTimers == 2

\* bound on the telemetry pushes and user gestures (double-clicks, handle
\* gestures, marker drags, commits) of one run
MaxEvents == 3

\* one more telemetry push or user gesture
Event == calls' = [calls EXCEPT !.events = @ + 1]

D360 == R(360, 1)

\* the normalisation without the second wrap: angle % 360 keeps the sign of
\* a negative angle
Normalize_noWrap(angle) == JsMod(angle, D360)

\* ((angle % 360) + 360) % 360
Normalize(angle) == JsMod(JsAdd(JsMod(angle, D360), D360), D360)

\* updateIcon(): setIcon() rebuilds the icon's inner elements, so the
\* listeners setupInteractions() had put on them are gone, and one more
\* setupInteractions() run is scheduled
updateIcon(m) == [m EXCEPT !.setups = 0, !.timers = @ + 1]

\* setRotationAngle(angle)
setRotationAngle(m, angle) ==
    updateIcon([m EXCEPT !.angleDegrees = Normalize(angle)])

\* rotate(angle)
rotate(m, angle) == setRotationAngle(m, angle)

\* rotate(angle) called n times in a row with the same argument
RECURSIVE rotateTimes(_, _, _)
rotateTimes(m, angle, n) ==
    IF n = 0 THEN m ELSE rotateTimes(rotate(m, angle), angle, n - 1)

\* the dblclick listeners of the icon, run one after the other: each one is
\* rotate(this.angleDegrees + 45)
RECURSIVE dblclick(_, _)
dblclick(m, n) ==
    IF n = 0 THEN m
    ELSE dblclick(rotate(m, JsAdd(m.angleDegrees, R(45, 1))), n - 1)

\* getPose()
getPose(m) == [x |-> m.lng, y |-> m.lat, angle |-> m.angleDegrees]

\* what changes outside the marker: nothing
MarkerOnly ==
    UNCHANGED <<frameVars, viewVars, dimVars, trackVars, errVars, netVars,
                alerts>>

\* a pending setTimeout callback runs setupInteractions(): one more dblclick
\* listener on the icon and one more mousedown listener on the handle
SetupInteractions ==
    /\ robotMarker.exists
    /\ robotMarker.timers > 0
    /\ robotMarker' = [robotMarker EXCEPT !.timers = @ - 1, !.setups = @ + 1]
    /\ last' = Did("setupInteractions")
    /\ MarkerOnly
    /\ UNCHANGED calls

\* the user double-clicks the robot icon
DblClick ==
    /\ calls.events < MaxEvents
    /\ robotMarker.exists
    /\ robotMarker.setups > 0
    /\ robotMarker.timers + robotMarker.setups <= MaxTimers
    /\ robotMarker' = dblclick(robotMarker, robotMarker.setups)
    /\ last' = Did("dblclick")
    /\ MarkerOnly
    /\ Event

\* onMouseDown without `this.dragging?.disable()`
HandleMouseDown_keepsDragging ==
    /\ calls.events < MaxEvents
    /\ robotMarker.exists
    /\ robotMarker.setups > 0
    /\ ~robotMarker.dragging
    /\ robotMarker.gestures = 0
    /\ robotMarker' = [robotMarker EXCEPT !.isRotating = TRUE,
                                          !.startAngle = robotMarker.angleDegrees,
                                          !.gestures = robotMarker.setups]
    /\ last' = Did("mousedown")
    /\ MarkerOnly
    /\ Event

\* mousedown on the rotation handle: every mousedown listener of the handle
\* runs onMouseDown and adds its own mousemove/mouseup pair to the document
HandleMouseDown ==
    /\ calls.events < MaxEvents
    /\ robotMarker.exists
    /\ robotMarker.setups > 0
    /\ ~robotMarker.dragging
    /\ robotMarker.gestures = 0
    /\ robotMarker' = [robotMarker EXCEPT !.isRotating = TRUE,
                                          !.dragEnabled = FALSE,
                                          !.startAngle = robotMarker.angleDegrees,
                                          !.gestures = robotMarker.setups]
    /\ last' = Did("mousedown")
    /\ MarkerOnly
    /\ Event

\* the mouse moves over the document: every onMouseMove attached to it
\* runs (none when no gesture is in progress); delta is
\* currentMouseAngle - startMouseAngle
MouseMove(delta) ==
    /\ robotMarker.exists
    /\ robotMarker.timers + robotMarker.gestures <= MaxTimers
    /\ robotMarker' =
          IF ~robotMarker.isRotating THEN robotMarker
          ELSE rotateTimes(robotMarker, JsAdd(robotMarker.startAngle, delta),
                           robotMarker.gestures)
    /\ last' = [Did("mousemove") EXCEPT !.a = delta]
    /\ MarkerOnly
    /\ UNCHANGED calls

\* mouseup: every onMouseUp of the gesture runs and removes its document
\* listeners; startAngle is dead until the next onMouseDown overwrites it
MouseUp ==
    /\ robotMarker.exists
    /\ robotMarker.gestures > 0
    /\ robotMarker' = [robotMarker EXCEPT !.isRotating = FALSE,
                                          !.dragEnabled = TRUE,
                                          !.startAngle = Zero,
                                          !.gestures = 0]
    /\ last' = Did("mouseup")
    /\ MarkerOnly
    /\ UNCHANGED calls

\* Leaflet drags the marker to [lat, lng]; the component's 'drag' handler
\* only runs change detection
Drag(lat, lng) ==
    /\ robotMarker.dragging \/ calls.events < MaxEvents
    /\ robotMarker.exists
    /\ robotMarker.dragEnabled
    /\ robotMarker.gestures = 0
    /\ robotMarker' = [robotMarker EXCEPT !.lat = lat, !.lng = lng,
                                          !.dragging = TRUE]
    /\ last' = [Did("drag") EXCEPT !.x = lng, !.y = lat]
    /\ MarkerOnly
    /\ IF robotMarker.dragging THEN UNCHANGED calls ELSE Event

----------------------------------------------------------------------------
(* Pose sync (app.component.ts 440-461, 487-565, 650-701)                  *)

NullPose == [x |-> Null, y |-> Null, angle |-> Null]

\* getRobotPose() without the final % 360
getRobotPose_noMod ==
    IF robotMarker.exists
    THEN LET pose == getPose(robotMarker)
         IN  [x |-> pose.x, y |-> pose.y, angle |-> JsSub(D360, pose.angle)]
    ELSE NullPose

\* getRobotPose()
getRobotPose ==
    IF robotMarker.exists
    THEN LET pose == getPose(robotMarker)
         IN  [x |-> pose.x, y |-> pose.y,
              angle |-> JsMod(JsSub(D360, pose.angle), D360)]
    ELSE NullPose

\* hasSignificantChange with >= in place of >
hasSignificantChange_atLeast(oldValue, newValue, tolerance) ==
    IF oldValue = Null THEN TRUE
    ELSE JsGe(JsAbs(JsSub(oldValue, newValue)), tolerance)

\* hasSignificantChange that ignores the tolerance it is given and uses the
\* default of 0.001
hasSignificantChange_defaultTolerance(oldValue, newValue, tolerance) ==
    IF oldValue = Null THEN TRUE
    ELSE JsGt(JsAbs(JsSub(oldValue, newValue)), R(1, 1000))

\* hasSignificantChange(oldValue, newValue, tolerance)
hasSignificantChange(oldValue, newValue, tolerance) ==
    IF oldValue = Null THEN TRUE
    ELSE JsGt(JsAbs(JsSub(oldValue, newValue)), tolerance)

positionTolerance == R(1, 1000)
rotationTolerance == R(1, 10)

\* updateRobotPosition(xMeters, yMeters, angleDegrees)
UpdateRobotPosition(xMeters, yMeters, angleDegrees) ==
    LET positionChanged ==
            \/ hasSignificantChange(previousRobotX, xMeters, positionTolerance)
            \/ hasSignificantChange(previousRobotY, yMeters, positionTolerance)
        rotationChanged ==
            hasSignificantChange(previousRobotAngle, angleDegrees, rotationTolerance)
        moved == IF positionChanged
                 THEN [robotMarker EXCEPT !.lat = yMeters, !.lng = xMeters]
                 ELSE robotMarker
        turned == IF rotationChanged THEN rotate(moved, angleDegrees) ELSE moved
    IN  /\ calls.events < MaxEvents
        /\ robotMarker.exists /\ rotationChanged => robotMarker.timers < MaxTimers
        /\ Event
        /\ last' = [Did("updateRobotPosition") EXCEPT
                        !.x = xMeters, !.y = yMeters, !.a = angleDegrees,
                        !.moved = robotMarker.exists /\ positionChanged,
                        !.rotated = robotMarker.exists /\ rotationChanged]
        /\ IF ~robotMarker.exists
           THEN UNCHANGED <<robotMarker, trackVars>>
           ELSE /\ robotMarker' = turned
                /\ previousRobotX' = IF positionChanged THEN xMeters ELSE previousRobotX
                /\ previousRobotY' = IF positionChanged THEN yMeters ELSE previousRobotY
                /\ previousRobotAngle' = IF rotationChanged THEN angleDegrees
                                         ELSE previousRobotAngle
        /\ UNCHANGED <<frameVars, viewVars, dimVars, errVars, netVars, alerts>>

\* the drag ends: the component's 'dragend' handler (444-461) takes the
\* tracked pose from getRobotPose()
DragEnd ==
    /\ robotMarker.exists
    /\ robotMarker.dragging
    /\ robotMarker' = [robotMarker EXCEPT !.dragging = FALSE]
    /\ previousRobotX' = getRobotPose.x
    /\ previousRobotY' = getRobotPose.y
    /\ previousRobotAngle' = getRobotPose.angle
    /\ last' = Did("dragend")
    /\ UNCHANGED <<frameVars, viewVars, dimVars, errVars, netVars, alerts,
                   calls>>

\* an angle in radians is modelled as a rational multiple of Math.PI: the
\* number v stands for v * Math.PI.  angleInRadians_degrees is the angle
\* sent as it is, in degrees.
angleInRadians_degrees(degrees) == degrees

\* robotPose.angle * Math.PI / 180
angleInRadians(degrees) == JsDiv(degrees, R(180, 1))

\* MapService.initializeLocalization(x, y, theta): one PUT
\* {base}/node-api/edge/localization/initialize in flight.  No handler of
\* the component reads the body back; the requests are counted, the payload
\* {x, y, theta} of each one in flight is kept until its response, and the
\* AMR keeps the payload of the last one it accepted.  The payload is also
\* recorded in `last` when it is sent (with the angle in degrees it was
\* computed from).
\* initializeLocalization_twice is the service subscribed to twice.
initializeLocalization_twice(x, y, theta) ==
    LET payload == [x |-> x, y |-> y, theta |-> theta]
    IN  [putRequests EXCEPT !.inFlight = @ + 2, !.issued = @ + 2,
                            !.payloads = Append(Append(@, payload), payload)]

initializeLocalization(x, y, theta) ==
    LET payload == [x |-> x, y |-> y, theta |-> theta]
    IN  [putRequests EXCEPT !.inFlight = @ + 1, !.issued = @ + 1,
                            !.payloads = Append(@, payload)]

\* initializeLocalization() up to the subscribe (659-676)
InitializeLocalization ==
    LET robotPose == getRobotPose
    IN  /\ calls.commit < MaxCommits
        /\ calls.events < MaxEvents
        /\ calls' = [calls EXCEPT
                        !.events = @ + 1,
                        !.commit = @ + 1,
                        !.commitWithMarker = IF robotMarker.exists THEN @ + 1 ELSE @]
        /\ IF robotPose = NullPose
           THEN /\ alerts' = [count |-> alerts.count + 1,
                              text |-> "Error: Robot position not available."]
                /\ last' = Did("initializeLocalization")
                /\ UNCHANGED putRequests
           ELSE /\ putRequests' =
                      initializeLocalization(robotPose.x, robotPose.y,
                                             angleInRadians(robotPose.angle))
                /\ last' = [Did("initializeLocalization") EXCEPT
                                !.x = robotPose.x, !.y = robotPose.y,
                                !.a = robotPose.angle,
                                !.theta = angleInRadians(robotPose.angle)]
                /\ UNCHANGED alerts
        /\ UNCHANGED <<frameVars, viewVars, dimVars, robotMarker, trackVars,
                       errVars, stateRequests, imageRequests, imageLoads,
                       blobUrls>>

\* the PUT succeeds (677-683): alert, then ngOnInit() again
CommitNext ==
    /\ putRequests.inFlight > 0
    /\ calls.ngOnInit < MaxLoads
    /\ \E i \in 1..Len(putRequests.payloads) :
          putRequests' = [putRequests EXCEPT !.inFlight = @ - 1,
                                             !.payloads = Remove(@, i),
                                             !.accepted = putRequests.payloads[i]]
    /\ alerts' = [count |-> alerts.count + 1,
                  text |-> "Localization initialized successfully!"]
    /\ ngOnInit
    /\ last' = Did("commitNext")
    /\ UNCHANGED <<frameVars, viewVars, dimVars, robotMarker, trackVars,
                   errVars, imageRequests, imageLoads, blobUrls>>

\* the message of a failed commit with no branch for status 422
commitErrorMessage_no422(status, details) ==
    IF status = 403 THEN "Forbidden: Check API permissions or authentication."
    ELSE IF status = 404 THEN "API endpoint not found. Check server configuration."
    ELSE IF details # "" THEN "Error: " \o details
    ELSE "Failed to initialize localization."

\* the message of a failed commit with the branches of 403 and 404 merged
commitErrorMessage_404as403(status, details) ==
    IF status = 403 \/ status = 404
    THEN "Forbidden: Check API permissions or authentication."
    ELSE IF status = 422 THEN "Validation error: Invalid position data."
    ELSE IF details # "" THEN "Error: " \o details
    ELSE "Failed to initialize localization."

\* the message of a failed commit (686-696); details is
\* error.error.error_details, "" when absent
commitErrorMessage(status, details) ==
    IF status = 403 THEN "Forbidden: Check API permissions or authentication."
    ELSE IF status = 404 THEN "API endpoint not found. Check server configuration."
    ELSE IF status = 422 THEN "Validation error: Invalid position data."
    ELSE IF details # "" THEN "Error: " \o details
    ELSE "Failed to initialize localization."

\* the PUT fails (684-699)
CommitError(status, details) ==
    /\ putRequests.inFlight > 0
    /\ \E i \in 1..Len(putRequests.payloads) :
          putRequests' = [putRequests EXCEPT !.inFlight = @ - 1,
                                             !.payloads = Remove(@, i)]
    /\ alerts' = [count |-> alerts.count + 1,
                  text |-> commitErrorMessage(status, details)]
    /\ last' = [Did("commitError") EXCEPT !.status = status, !.details = details]
    /\ UNCHANGED <<frameVars, viewVars, dimVars, robotMarker, trackVars,
                   errVars, stateRequests, imageRequests, imageLoads,
                   blobUrls, calls>>

\* retryConnection() (651-656)
RetryConnection ==
    /\ calls.ngOnInit > 0
    /\ calls.ngOnInit < MaxLoads
    /\ hasError' = FALSE
    /\ errorMessage' = ""
    /\ ngOnInit
    /\ last' = Did("retryConnection")
    /\ UNCHANGED <<frameVars, viewVars, dimVars, robotMarker, trackVars,
                   imageRequests, imageLoads, blobUrls, putRequests, alerts>>

\* MapService.releaseMapImage(url): URL.revokeObjectURL(url)
releaseMapImage(url) == [blobUrls EXCEPT !.revoked = @ \cup {url.id}]

\* ngOnDestroy() (703-723): releases the current blob URL and calls remove()
\* on the image overlay, the Leaflet map, the robot marker and the origin
\* marker the fields refer to; no field is cleared, no subscription is
\* cancelled and no handler is taken off the map
NgOnDestroy ==
    /\ calls.ngOnInit > 0
    /\ calls.ngOnDestroy = 0
    /\ blobUrls' = IF mapImageUrl # NoUrl THEN releaseMapImage(mapImageUrl)
                   ELSE blobUrls
    /\ calls' = [calls EXCEPT !.ngOnDestroy = @ + 1]
    /\ last' = [Did("ngOnDestroy") EXCEPT !.removed =
                    (IF mapImageLayer # NoUrl THEN {"mapImageLayer"} ELSE {})
                    \cup (IF map THEN {"map"} ELSE {})
                    \cup (IF robotMarker.exists THEN {"robotMarker"} ELSE {})
                    \cup (IF originMarker # NullOrigin THEN {"originMarker"} ELSE {})]
    /\ leaflet' =
          IF map
          THEN [leaflet EXCEPT !.overlays = 0, !.markers = 0, !.crosshairs = 0]
          ELSE [leaflet EXCEPT
                   !.overlays = removeLayer(@, mapImageLayer # NoUrl),
                   !.markers = removeLayer(@, robotMarker.exists),
                   !.crosshairs = removeLayer(@, originMarker # NullOrigin)]
    /\ UNCHANGED <<frameVars, mapImageUrl, map, mapImageLayer, originMarker,
                   dimVars, robotMarker, trackVars,
                   errVars, stateRequests, imageRequests, imageLoads,
                   putRequests, alerts>>

----------------------------------------------------------------------------
(* Specifications                                                          *)

\* every AMR state response the conversions can meet
FrameResponses ==
    {NoLocalization, NoMap} \cup
    { MapInfo(id, res, org) :
        id \in {"", "mapA"},
        res \in {Undefined, Zero, R(-1, 20), ApiResolution, R(1, 10)},
        org \in {NullOrigin, ApiOrigin, Origin(Zero, R(1, 2))} }

\* the frame is loaded once and the conversions are applied to it
NextConv ==
    \/ NgOnInit
    \/ \E r \in FrameResponses : StateNext(r)
    \/ StateError
    \/ MetersToPixelsX
    \/ MetersToPixelsY
    \/ PixelsToMetersX
    \/ PixelsToMetersY

SpecConv == Init /\ [][NextConv]_vars

\* the one load sequence of the specifications about the marker: the map
\* of the API documentation, 8 x 4 pixels, so the marker starts at
\* (-70.2, -63.9)
LoadsDefaultMap ==
    \/ NgOnInit
    \/ StateNext(MapInfo("mapA", ApiResolution, ApiOrigin))
    \/ \E i \in 1..Len(imageRequests) : ImageNext(i)
    \/ \E i \in 1..Len(imageLoads) : ImageOnload(i)

CenterX == R(-351, 5)
CenterY == R(-639, 10)
Pose(x, y, a) == [x |-> x, y |-> y, a |-> a]

\* telemetry around the thresholds: 0.5 mm, 1 mm and 2 mm from the start
\* position, 0.05, 0.1, 90, 370 and -10 degrees
PushOffsets == {Zero, R(1, 2000), R(1, 1000), R(2, 1000)}
PushAngles == {R(1, 20), R(1, 10), R(90, 1), R(370, 1), R(-10, 1)}
FinePushes ==
    { Pose(JsAdd(CenterX, dx), JsAdd(CenterY, dy), Zero) :
        dx \in PushOffsets, dy \in {Zero, R(2, 1000)} }
    \cup { Pose(CenterX, CenterY, a) : a \in PushAngles }
    \cup { Pose(JsAdd(CenterX, R(2, 1000)), CenterY, R(90, 1)),
           Pose(JsAdd(CenterX, R(1, 2000)), JsAdd(CenterY, R(2, 1000)), R(1, 20)) }
DragTargets == {[lat |-> R(-64, 1), lng |-> R(-70, 1)]}

\* telemetry and marker drags
NextSync ==
    \/ LoadsDefaultMap
    \/ SetupInteractions
    \/ \E p \in FinePushes : UpdateRobotPosition(p.x, p.y, p.a)
    \/ \E p \in DragTargets : Drag(p.lat, p.lng)
    \/ DragEnd

SpecSync == Init /\ [][NextSync]_vars

\* rotation: rotate() through telemetry at the start position, double-clicks
\* and rotation-handle gestures
RotateAngles == {Zero, R(90, 1), R(370, 1), R(-10, 1), R(-725, 2)}
MouseDeltas == {R(-90, 1), R(45, 2), R(359, 1)}

NextMarker ==
    \/ LoadsDefaultMap
    \/ SetupInteractions
    \/ \E a \in RotateAngles : UpdateRobotPosition(CenterX, CenterY, a)
    \/ DblClick
    \/ HandleMouseDown
    \/ \E delta \in MouseDeltas : MouseMove(delta)
    \/ MouseUp

SpecMarker == Init /\ [][NextMarker]_vars

\* every operation on the pose, and the commit
CoarsePushes == {Pose(JsAdd(CenterX, R(2, 1000)), CenterY, R(90, 1))}
CommitFailures ==
    {[status |-> 403, details |-> ""], [status |-> 404, details |-> ""],
     [status |-> 422, details |-> ""], [status |-> 500, details |-> ""],
     [status |-> 400, details |-> "bad pose"]}

NextPose ==
    \/ LoadsDefaultMap
    \/ SetupInteractions
    \/ DblClick
    \/ HandleMouseDown
    \/ MouseMove(R(-90, 1))
    \/ MouseUp
    \/ \E p \in DragTargets : Drag(p.lat, p.lng)
    \/ DragEnd
    \/ \E p \in CoarsePushes : UpdateRobotPosition(p.x, p.y, p.a)
    \/ InitializeLocalization
    \/ CommitError(422, "")

SpecPose == Init /\ [][NextPose]_vars

\* a pose set by the user, committed with success, and the reload the
\* commit starts
NextCommit ==
    \/ LoadsDefaultMap
    \/ SetupInteractions
    \/ DblClick
    \/ \E p \in DragTargets : Drag(p.lat, p.lng)
    \/ DragEnd
    \/ InitializeLocalization
    \/ CommitNext

SpecCommit == Init /\ [][NextCommit]_vars

\* load sequences: the hook, retries and post-commit reloads, with every
\* kind of response
LoadResponses ==
    {NoLocalization, NoMap, MapInfo("", ApiResolution, ApiOrigin),
     MapInfo("mapA", Undefined, ApiOrigin), MapInfo("mapA", Zero, ApiOrigin),
     MapInfo("mapA", R(-1, 20), ApiOrigin),
     MapInfo("mapA", ApiResolution, ApiOrigin),
     MapInfo("mapB", R(1, 10), NullOrigin)}

NextLoad ==
    \/ NgOnInit
    \/ \E r \in LoadResponses : StateNext(r)
    \/ StateError
    \/ \E i \in 1..Len(imageRequests) : ImageNext(i)
    \/ \E i \in 1..Len(imageRequests) : ImageError(i)
    \/ \E i \in 1..Len(imageLoads) : ImageOnload(i)
    \/ RetryConnection
    \/ InitializeLocalization
    \/ CommitNext
    \/ \E f \in CommitFailures : CommitError(f.status, f.details)

SpecLoad == Init /\ [][NextLoad]_vars

\* the life of the component up to and after its teardown: the hook, the
\* user's retries and commits and the image loads happen while the component
\* lives; the responses of the requests in flight also arrive after
\* ngOnDestroy(), since no subscription is cancelled.  What img.onload does
\* on a removed Leaflet map is the library's and is left out.
TeardownResponses ==
    {NoMap, MapInfo("mapA", ApiResolution, ApiOrigin),
     MapInfo("mapB", R(1, 10), NullOrigin)}

NextTeardown ==
    \/ /\ calls.ngOnDestroy = 0
       /\ \/ NgOnInit
          \/ RetryConnection
          \/ InitializeLocalization
          \/ \E i \in 1..Len(imageLoads) : ImageOnload(i)
    \/ NgOnDestroy
    \/ \E r \in TeardownResponses : StateNext(r)
    \/ StateError
    \/ \E i \in 1..Len(imageRequests) : ImageNext(i)
    \/ \E i \in 1..Len(imageRequests) : ImageError(i)
    \/ CommitNext
    \/ CommitError(500, "")

SpecTeardown == Init /\ [][NextTeardown]_vars

----------------------------------------------------------------------------
(* Claims on the coordinate conversions (SpecConv)                         *)

ConvOps == {"metersToPixelsX", "metersToPixelsY", "pixelsToMetersX", "pixelsToMetersY"}

\* C1: with resolution > 0 the per-axis conversions are mutually inverse:
\* metersToPixelsX(pixelsToMetersX(p)) = p, metersToPixelsY(pixelsToMetersY(p)) = p,
\* and metric -> local -> metric -> local gives the local value of one
\* conversion.
C1_RoundTrip ==
    JsGt(resolution, Zero) =>
        \A p \in CoordInputs :
            /\ metersToPixelsX(pixelsToMetersX(p)) = p
            /\ metersToPixelsY(pixelsToMetersY(p)) = p
            /\ metersToPixelsX(pixelsToMetersX(metersToPixelsX(p))) = metersToPixelsX(p)
            /\ metersToPixelsY(pixelsToMetersY(metersToPixelsY(p))) = metersToPixelsY(p)

\* a local coordinate was converted to a different metric one in a loaded
\* frame, and converting back returns it
C1_Witness ==
    /\ JsGt(resolution, Zero)
    /\ mapOrigin = ApiOrigin
    /\ last.op = "pixelsToMetersY"
    /\ last.out # last.x
    /\ metersToPixelsY(last.out) = last.x

Thrown == [n |-> 0, d |-> -3]

\* C3: a conversion invoked while resolution is 0 or mapOrigin is missing
\* fails fast with an error outcome instead of returning a number.
C3_FailsFast ==
    (last.op \in ConvOps /\ (resolution = Zero \/ mapOrigin = NullOrigin)) =>
        last.out = Thrown

\* the result of conversion op on v with resolution res and origin org
ConversionWith(op, v, res, org) ==
    IF op = "metersToPixelsX" THEN JsDiv(JsSub(v, org.x), res)
    ELSE IF op = "metersToPixelsY" THEN JsDiv(JsSub(v, org.y), res)
    ELSE IF op = "pixelsToMetersX" THEN JsAdd(org.x, JsMul(v, res))
    ELSE JsAdd(org.y, JsMul(v, res))

\* C21: the conversions fall back to the Environment Server API values: with
\* this.resolution unset (0) they use the resolution 0.05 and with
\* this.mapOrigin unset they use the origin (-70.4, -64.0), so a conversion
\* with no map info loaded gives the result of one with those values.
C21_ApiFallback ==
    (last.op \in ConvOps /\ (resolution = Zero \/ mapOrigin = NullOrigin)) =>
        last.out =
            ConversionWith(last.op, last.x,
                           IF resolution = Zero THEN ApiResolution ELSE resolution,
                           IF mapOrigin = NullOrigin THEN ApiOrigin ELSE mapOrigin)

----------------------------------------------------------------------------
(* Claims on the load sequence (SpecLoad)                                  *)

\* C4: whenever a map image request has been issued, the Leaflet map has
\* been initialised or a robot marker exists, the stored resolution is
\* strictly positive, whatever resolution the AMR state response carried.
C4_ResolutionPositive ==
    (Len(imageRequests) > 0 \/ map \/ robotMarker.exists) =>
        JsGt(resolution, Zero)

----------------------------------------------------------------------------
(* Claims on the marker's rotation (SpecMarker)                            *)

\* C5: the marker's stored rotation angle is in [0, 360) in every reachable
\* state, after rotate() with negative or > 360 arguments, double-clicks and
\* rotation-handle mouse moves.
C5_AngleInRange ==
    robotMarker.exists =>
        /\ IsFinite(robotMarker.angleDegrees)
        /\ JsGe(robotMarker.angleDegrees, Zero)
        /\ JsLt(robotMarker.angleDegrees, D360)

\* a mouse move of the rotation handle took the angle below 0 and it was
\* stored wrapped around
C5_Witness ==
    /\ robotMarker.exists
    /\ last.op = "mousemove"
    /\ JsLt(JsAdd(robotMarker.startAngle, last.a), Zero)
    /\ robotMarker.angleDegrees = JsAdd(JsAdd(robotMarker.startAngle, last.a), D360)

----------------------------------------------------------------------------
(* Claims on the pose and the commit (SpecPose)                            *)

C7_SetThenGet ==
    (last.op = "updateRobotPosition" /\ last.moved /\ last.rotated) =>
        /\ getRobotPose.x = last.x
        /\ getRobotPose.y = last.y
        /\ getRobotPose.angle = Normalize(last.a)

\* C10: the number of PUTs to /node-api/edge/localization/initialize equals
\* the number of initializeLocalization() calls made while a marker exists;
\* drags, handle rotations, double-clicks and updateRobotPosition issue none,
\* and initializeLocalization() without a marker issues none.
C10_PutsAreCommits ==
    /\ putRequests.issued = calls.commitWithMarker
    /\ putRequests.inFlight <= putRequests.issued

\* a commit on a marker the user had moved or turned issued the one PUT
C10_Witness ==
    /\ last.op = "initializeLocalization"
    /\ robotMarker.exists
    /\ calls.events > 1
    /\ putRequests.issued = 1

\* C11: the body of the commit request carries x and y equal to
\* getRobotPose().x/.y at the moment of the call and theta equal to
\* getRobotPose().angle * PI / 180, so theta lies in [0, 2 * PI).
C11_CommitBody ==
    (last.op = "initializeLocalization" /\ robotMarker.exists) =>
        /\ last.x = getRobotPose.x
        /\ last.y = getRobotPose.y
        /\ JsMul(last.theta, R(180, 1)) = getRobotPose.angle
        /\ JsGe(last.theta, Zero) /\ JsLt(last.theta, R(2, 1))

\* a marker pushed to 90 degrees and dragged to (-70, -64) was committed
\* with theta = 3/2 PI
C11_Witness ==
    /\ last.op = "initializeLocalization"
    /\ robotMarker.exists
    /\ robotMarker.angleDegrees = R(90, 1)
    /\ last.x = R(-70, 1) /\ last.y = R(-64, 1)
    /\ last.theta = R(3, 2)

\* the text s contains the text t
Contains(s, t) ==
    \E i \in 1..(Len(s) - Len(t) + 1) : SubSeq(s, i, i + Len(t) - 1) = t

\* C12: when the commit request fails with HTTP 422 the user is shown a
\* message containing "Validation error", the marker's position and rotation
\* and the tracked pose are what they were, and no reload of the AMR state is
\* started.
C12_ValidationErrorKeepsPose ==
    [][CommitError(422, "") =>
          /\ Contains(alerts'.text, "Validation error")
          /\ alerts'.count = alerts.count + 1
          /\ UNCHANGED <<robotMarker, trackVars, stateRequests>>
          /\ calls'.ngOnInit = calls.ngOnInit]_vars

\* a commit of a marker turned to 90 degrees failed with 422: the message is
\* shown, the marker is still at 90 degrees and nothing is being fetched
C12_Witness ==
    /\ last.op = "commitError"
    /\ last.status = 422
    /\ Contains(alerts.text, "Validation error")
    /\ robotMarker.exists
    /\ robotMarker.angleDegrees = R(90, 1)
    /\ previousRobotAngle = R(90, 1)
    /\ stateRequests = 0

----------------------------------------------------------------------------
(* Claims on the commit's notifications (SpecLoad)                         *)

\* the notifications shown so far are one per completed commit request and
\* one per initializeLocalization() call made without a marker
OneAlertPerCompletion ==
    alerts.count = (putRequests.issued - putRequests.inFlight)
                   + (calls.commit - calls.commitWithMarker)

\* the messages of 403, 404 and 422 differ from each other and from the
\* generic one
DistinctStatusMessages ==
    Cardinality({commitErrorMessage(403, ""), commitErrorMessage(404, ""),
                 commitErrorMessage(422, ""), commitErrorMessage(500, "")}) = 4

\* C13 as stated: a failed commit maps 403, 404 and 422 to three pairwise
\* distinct messages and every other failure to the single generic message
\* 'Failed to initialize localization.'; every completed commit request
\* produces exactly one notification.
C13_OtherFailuresGeneric ==
    /\ DistinctStatusMessages
    /\ OneAlertPerCompletion
    /\ (last.op = "commitError" /\ last.status \notin {403, 404, 422}) =>
            alerts.text = "Failed to initialize localization."

\* C13, amended: a failure with a status other than 403, 404 and 422 shows
\* "Error: " followed by the error_details of the response body when the
\* body carries them, and the generic message otherwise.
C13_StatusMessages ==
    /\ DistinctStatusMessages
    /\ OneAlertPerCompletion
    /\ last.op = "commitError" =>
          alerts.text =
            (IF last.status = 403
                THEN "Forbidden: Check API permissions or authentication."
             ELSE IF last.status = 404
                THEN "API endpoint not found. Check server configuration."
             ELSE IF last.status = 422
                THEN "Validation error: Invalid position data."
             ELSE IF last.details # "" THEN "Error: " \o last.details
             ELSE "Failed to initialize localization.")

\* a commit failed with status 500 and no details and the generic message
\* was the one notification shown
C13_Witness ==
    /\ last.op = "commitError"
    /\ last.status = 500
    /\ alerts.text = "Failed to initialize localization."
    /\ alerts.count = 1
    /\ putRequests.issued = 1 /\ putRequests.inFlight = 0

----------------------------------------------------------------------------
(* Claims on the failures of a load (SpecLoad)                             *)

\* AMR state responses with a map identifier and no resolution
NoResolutionResponses ==
    {r \in LoadResponses :
        r.hasMap /\ r.data # "" /\ r.resolution \in {Undefined, Zero}}

FailureMode ==
    IF last.op \in {"stateError", "imageError"} THEN "network"
    ELSE IF last.op = "stateNext" /\ last.log = "No map ID available"
         THEN "identifier"
    ELSE IF last.op = "stateNext" /\ last.log = "No map resolution available"
         THEN "resolution"
    ELSE "none"

\* C15: each map-load failure mode (network error, missing map identifier,
\* missing resolution) ends the load sequence with hasError = true and an
\* errorMessage of its own (the message of a missing identifier or resolution
\* is not one of a network error); none ends with only a log entry.
C15_FailuresVisible ==
    FailureMode # "none" =>
        /\ hasError
        /\ errorMessage # ""
        /\ FailureMode # "network" => ~Contains(errorMessage, "Failed to ")

\* C16: when the AMR state response lacks `localization` or
\* `localization.map`, hasError becomes true with a non-empty errorMessage,
\* mapId, resolution, mapOrigin and mapName keep their values and no map
\* image request is issued.
C16_DataUnavailable ==
    [][\A r \in {NoLocalization, NoMap} :
        StateNext(r) =>
            /\ hasError' /\ errorMessage' # ""
            /\ UNCHANGED frameVars
            /\ imageRequests' = imageRequests]_vars

\* a reload of a loaded map got a response without `localization.map`: the
\* error is shown and the frame is still the one of the loaded map
C16_Witness ==
    /\ last.op = "stateNext"
    /\ errorMessage = "No map data available in localization"
    /\ hasError
    /\ mapId = "mapA" /\ resolution = ApiResolution /\ mapOrigin = ApiOrigin
    /\ robotMarker.exists
    /\ imageRequests = <<>>

\* C17: a network failure of the state fetch or of the image fetch sets
\* hasError = true and an errorMessage that contains the identifier of the
\* resource whose fetch failed: the current mapId for an image fetch, the
\* address of the service that was queried for a state fetch.
C17_MessageNamesResource ==
    /\ last.op = "imageError" =>
          hasError /\ Contains(errorMessage, mapId)
    /\ last.op = "stateError" =>
          hasError /\ Contains(errorMessage, apiUrl)

\* the HTTP requests in flight
InFlight == stateRequests + Len(imageRequests) + putRequests.inFlight

\* C18: there is no automatic retry: once the component has loaded and
\* nothing is in flight, a request is only issued by an action of the user
\* (retryConnection() or initializeLocalization()); retryConnection() resets
\* hasError to false and errorMessage to empty and issues exactly one AMR
\* state fetch, from which the sequence runs again.
C18_NoAutomaticRetry ==
    [][/\ (calls.ngOnInit > 0 /\ InFlight = 0 /\ InFlight' > 0) =>
             last'.op \in {"retryConnection", "initializeLocalization"}
       /\ RetryConnection =>
             /\ ~hasError' /\ errorMessage' = ""
             /\ stateRequests' = stateRequests + 1
             /\ UNCHANGED <<imageRequests, putRequests, frameVars>>]_vars

\* the state fetch of the first sequence failed, the user retried, and the
\* second sequence ran to the display of the map and the marker
C18_Witness ==
    /\ last.op = "imageOnload"
    /\ calls.ngOnInit = 2
    /\ putRequests.issued = 0
    /\ blobUrls.created = 1
    /\ ~hasError /\ errorMessage = ""
    /\ mapImageLayer # NoUrl
    /\ robotMarker.exists

\* C20: the map frame is replaced as a whole: in every state after the
\* first image has loaded the stored dimensions agree with the stored
\* resolution, mapWidthMeters = mapWidthPixels * resolution and
\* mapHeightMeters = mapHeightPixels * resolution.
C20_FrameReplacedWhole ==
    mapWidthPixels # Zero =>
        /\ mapWidthMeters = JsMul(mapWidthPixels, resolution)
        /\ mapHeightMeters = JsMul(mapHeightPixels, resolution)

----------------------------------------------------------------------------
(* Claims on the layers and handlers of the Leaflet map (SpecLoad)         *)

\* C22: the robot marker exists only after a map image has finished
\* loading, and at every moment at most one robot marker, one image overlay
\* and one origin crosshair are attached to the map (the ones the fields
\* refer to), for any number and interleaving of load sequences.
C22_OneLayerOfEachKind ==
    /\ robotMarker.exists =>
          /\ mapImageLayer # NoUrl
          /\ mapWidthPixels # Zero
          /\ map
    /\ leaflet.markers = (IF robotMarker.exists THEN 1 ELSE 0)
    /\ leaflet.overlays = (IF mapImageLayer # NoUrl THEN 1 ELSE 0)
    /\ leaflet.crosshairs = (IF originMarker # NullOrigin THEN 1 ELSE 0)

\* a reload completed: the image of the second sequence is displayed and the
\* map carries one marker, one overlay and one crosshair
C22_Witness ==
    /\ last.op = "imageOnload"
    /\ calls.ngOnInit = 2
    /\ blobUrls.created = 2
    /\ mapImageLayer.id = 2
    /\ imageLoads = <<>>
    /\ leaflet.markers = 1 /\ leaflet.overlays = 1 /\ leaflet.crosshairs = 1

\* C30: reloads do not accumulate event handlers: the Leaflet map has at
\* most one handler registered by the component for each of the 'zoom',
\* 'resize' and 'zoomend' events.
C30_OneHandlerPerEvent ==
    /\ leaflet.zoom <= 1
    /\ leaflet.resize <= 1
    /\ leaflet.zoomend <= 1

----------------------------------------------------------------------------
(* Claims on overlapping and repeated load sequences (SpecLoad)            *)

\* every response was handled and every image finished loading
Settled == InFlight = 0 /\ imageLoads = <<>>

\* the latest load sequence completed successfully and its image is
\* displayed: a state response with a map was handled after the latest
\* ngOnInit(), an image response after that one, and the overlay shows the
\* newest blob URL
LatestLoadDisplayed ==
    /\ Settled
    /\ calls.ngOnInit > 0
    /\ calls.answered = calls.ngOnInit
    /\ calls.loaded = calls.ngOnInit
    /\ mapImageLayer # NoUrl
    /\ mapImageLayer = mapImageUrl
    /\ mapImageLayer.map = mapId

\* C26: hasError reflects the most recent load sequence: whenever the
\* latest load sequence has completed successfully and the map image is
\* displayed, hasError is false and errorMessage is empty, even if an
\* earlier sequence failed.
C26_ErrorFollowsLatestLoad ==
    LatestLoadDisplayed => (~hasError /\ errorMessage = "")

\* C27: when load sequences overlap, for every order in which the state
\* and image responses arrive, once all responses have been handled (each
\* sequence having received its image) the displayed image is the image of
\* the currently stored mapId.
C27_DisplayedImageOfStoredMap ==
    (/\ Settled
     /\ mapImageLayer # NoUrl
     /\ blobUrls.created = calls.ngOnInit) => mapImageLayer.map = mapId

----------------------------------------------------------------------------
(* Claims on the teardown (SpecTeardown)                                   *)

\* C19: after ngOnDestroy every blob URL created by getMapImage during the
\* component's life has been released through releaseMapImage, those of
\* earlier load sequences and of responses in flight at teardown included,
\* and remove() was called on the image overlay, the robot marker and the
\* origin marker.
C19_TeardownReleases ==
    calls.ngOnDestroy > 0 =>
        /\ \A id \in 1..blobUrls.created : id \in blobUrls.revoked
        /\ last.op = "ngOnDestroy" =>
              /\ mapImageLayer # NoUrl => "mapImageLayer" \in last.removed
              /\ robotMarker.exists => "robotMarker" \in last.removed
              /\ originMarker # NullOrigin => "originMarker" \in last.removed

----------------------------------------------------------------------------
(* Claims on the telemetry thresholds (SpecSync)                           *)

\* |a - b| > tolerance, for numbers
Beyond(a, b, tolerance) ==
    LET d == JsSub(a, b)
    IN  JsGt(d, tolerance) \/ JsLt(d, JsNeg(tolerance))

\* C8: updateRobotPosition moves the marker if and only if the new x or the
\* new y differs from the tracked value by more than 0.001 m; when it moves,
\* the marker and the tracked position become the pushed position.
C8_MovesIffBeyond1mm ==
    [][\A p \in FinePushes :
        (robotMarker.exists /\ UpdateRobotPosition(p.x, p.y, p.a)) =>
            LET far == \/ Beyond(p.x, previousRobotX, R(1, 1000))
                       \/ Beyond(p.y, previousRobotY, R(1, 1000))
            IN  /\ previousRobotX # Null /\ previousRobotY # Null
                /\ far => /\ robotMarker'.lng = p.x
                          /\ robotMarker'.lat = p.y
                          /\ previousRobotX' = p.x
                          /\ previousRobotY' = p.y
                /\ ~far => /\ robotMarker'.lng = robotMarker.lng
                           /\ robotMarker'.lat = robotMarker.lat
                           /\ UNCHANGED <<previousRobotX, previousRobotY>>
                /\ last'.moved = far]_vars

\* a push 0.5 mm from the tracked position (itself set by an earlier push
\* that moved the marker) left the marker where it was
C8_Witness ==
    /\ robotMarker.exists
    /\ last.op = "updateRobotPosition"
    /\ ~last.moved
    /\ previousRobotX = JsAdd(CenterX, R(1, 2000))
    /\ previousRobotY = JsAdd(CenterY, R(2, 1000))
    /\ last.x = CenterX
    /\ last.y = previousRobotY
    /\ robotMarker.lng = previousRobotX

\* C9: updateRobotPosition changes nothing when no marker exists or when
\* |dx| <= 0.001, |dy| <= 0.001 and |dAngle| <= 0.1; when only the position
\* or only the rotation exceeds its threshold, the other one (marker value
\* and tracked value) is left unchanged.
C9_WithinToleranceUnchanged ==
    [][\A p \in FinePushes :
        UpdateRobotPosition(p.x, p.y, p.a) =>
            LET farPos == \/ Beyond(p.x, previousRobotX, R(1, 1000))
                          \/ Beyond(p.y, previousRobotY, R(1, 1000))
                farRot == Beyond(p.a, previousRobotAngle, R(1, 10))
            IN  /\ ~robotMarker.exists => UNCHANGED <<robotMarker, trackVars>>
                /\ (robotMarker.exists /\ ~farPos /\ ~farRot) =>
                      UNCHANGED <<robotMarker, trackVars>>
                /\ (robotMarker.exists /\ ~farPos) =>
                      /\ robotMarker'.lng = robotMarker.lng
                      /\ robotMarker'.lat = robotMarker.lat
                      /\ UNCHANGED <<previousRobotX, previousRobotY>>
                /\ (robotMarker.exists /\ ~farRot) =>
                      /\ robotMarker'.angleDegrees = robotMarker.angleDegrees
                      /\ UNCHANGED previousRobotAngle]_vars

\* a push exactly 0.1 degrees from the tracked angle, at the tracked
\* position, changed nothing
C9_Witness ==
    /\ robotMarker.exists
    /\ last.op = "updateRobotPosition"
    /\ ~last.moved /\ ~last.rotated
    /\ last.a = R(1, 10)
    /\ previousRobotAngle = Zero
    /\ last.x = previousRobotX /\ last.y = previousRobotY

----------------------------------------------------------------------------
(* Claims on the tracked pose (SpecSync, SpecMarker)                       *)

\* C23: every angle written by telemetry or by a user gesture is stored
\* normalized: after any sequence of updateRobotPosition calls (with angles
\* such as 370 or -10) and drag-end events the tracked previousRobotAngle
\* is null or in [0, 360).
C23_TrackedAngleNormalized ==
    previousRobotAngle # Null =>
        /\ JsGe(previousRobotAngle, Zero)
        /\ JsLt(previousRobotAngle, D360)

\* the distance of two angles on the circle, in degrees
AngleDistance(a, b) ==
    LET d == JsAbs(JsMod(JsSub(a, b), D360))
    IN  IF JsGt(d, R(180, 1)) THEN JsSub(D360, d) ELSE d

\* C24: when updateRobotPosition(x, y, a) returns while a marker exists, the
\* marker is within 0.001 m of (x, y) on each axis and its stored rotation
\* within 0.1 degrees of a modulo 360, whatever pushes, rotation-handle
\* gestures and double-clicks preceded the call.
C24_MarkerFollowsPush ==
    (last.op = "updateRobotPosition" /\ robotMarker.exists) =>
        /\ ~Beyond(robotMarker.lng, last.x, positionTolerance)
        /\ ~Beyond(robotMarker.lat, last.y, positionTolerance)
        /\ ~JsGt(AngleDistance(robotMarker.angleDegrees, last.a), rotationTolerance)

----------------------------------------------------------------------------
(* Claims on the marker's gestures (SpecMarker, SpecPose)                  *)

\* C28: a double-click on the robot icon rotates the marker by exactly 45
\* degrees modulo 360, whatever precedes it, several rotate() calls whose
\* delayed setupInteractions() callbacks ran against the same icon included.
C28_DblClickIs45 ==
    [][last'.op = "dblclick" =>
          robotMarker'.angleDegrees =
              Normalize(JsAdd(robotMarker.angleDegrees, R(45, 1)))]_vars

----------------------------------------------------------------------------
(* Claims on the reload after a commit (SpecCommit)                        *)

\* C25: a successful commit does not lose the committed pose: after
\* initializeLocalization() succeeded and the reload it triggers has
\* completed, the marker's position and rotation are the committed pose.
C25_CommitKeepsPose ==
    (/\ last.op = "imageOnload"
     /\ putRequests.issued > 0
     /\ putRequests.inFlight = 0
     /\ alerts.text = "Localization initialized successfully!"
     /\ Settled
     /\ calls.loaded = calls.ngOnInit
     /\ robotMarker.exists) =>
        /\ getRobotPose.x = putRequests.accepted.x
        /\ getRobotPose.y = putRequests.accepted.y
        /\ angleInRadians(getRobotPose.angle) = putRequests.accepted.theta

====
